---- MODULE Spec2Model ----
(***************************************************************************)
(* NVM programming over UPDI: pymcuprog/serialupdi/nvm.py.                 *)
(*                                                                         *)
(* The driver (NvmUpdi, NvmUpdiTinyMega = generation 0, NvmUpdiAvrDx =     *)
(* generation 1) is a sequential program that talks to a device through    *)
(* the link object `readwrite`.  One public operation is running at a time *)
(* (`op`), `prog` is the straight-line sequence of link accesses the       *)
(* method body performs for its arguments and `pc` is the driver's         *)
(* position in it.  The device (status register, command register CTRLA,   *)
(* page buffer, target memory) runs concurrently with the driver.          *)
(***************************************************************************)
EXTENDS Integers, Sequences, FiniteSets, TLC

VARIABLES
    gen,        \* 0: NvmUpdiTinyMega, 1: NvmUpdiAvrDx (fixed at construction)
    status,     \* device: set of bits set in NVMCTRL.STATUS
    ctrla,      \* device: last command code written to NVMCTRL.CTRLA
    regs,       \* device: ADDRL / ADDRH / DATAL registers
    pagebuf,    \* device (generation 0): page buffer, NotLoaded where untouched
    mem,        \* device: target memory, one byte per address
    op,         \* driver: the public operation called last, with its arguments
    prog,       \* driver: link accesses of the running method body
    pc,         \* driver: index into prog, 0 when no operation is running
    elapsed,    \* driver: time since the Timeout of the running ready-wait started
    outcome,    \* driver: "none", "running", "returned" or "raised"
    exc,        \* driver: the exception raised by the last operation
    cause,      \* log: what made the last ready-wait or link call fail
    trace,      \* link log: the accesses of the operation called last
    fresh,      \* caller: the range the running write targets was erased at the call
    raisedFor,  \* caller: the exception last raised for each cause of a failed wait
    plan,       \* caller: the pages of a flash-programming session
    phase,      \* caller: "bulk" or "single" pass of the session, "" outside one
    done,       \* caller: pages of the plan written in this pass
    bulkMem     \* caller: target memory as the bulk pass left it

vars == <<gen, status, ctrla, regs, pagebuf, mem, op, prog, pc, elapsed,
          outcome, exc, cause, trace, fresh, raisedFor, plan, phase, done, bulkMem>>

sessionvars == <<plan, phase, done, bulkMem>>

devvars == <<status, ctrla, regs, pagebuf, mem>>

(***************************************************************************)
(* Bounds of the model.                                                    *)
(***************************************************************************)
\* The 10 s deadline of Timeout(10000), counted in link transactions.
Deadline == 3
\* Longest run of consecutive flash pages written in one bulk sequence.
MaxPages == 2
\* Largest size passed to erase_user_row.
MaxSize == 2

\* Default of the blocksize parameter; one model page holds one block.
blocksize == 2

(***************************************************************************)
(* Status register bits (the UPDI_NVM_STATUS_ constants).                  *)
(***************************************************************************)
WRITE_ERROR == "WRITE_ERROR"
EEPROM_BUSY == "EEPROM_BUSY"
FLASH_BUSY  == "FLASH_BUSY"
StatusBits  == {WRITE_ERROR, EEPROM_BUSY, FLASH_BUSY}
BusyBits    == {EEPROM_BUSY, FLASH_BUSY}
IsBusy(st)  == st \cap BusyBits # {}

(***************************************************************************)
(* Command codes (the UPDI_V0_NVMCTRL_CTRLA_ and UPDI_V1_ constants).      *)
(***************************************************************************)
V0_NOP              == "V0_NOP"
V0_WRITE_PAGE       == "V0_WRITE_PAGE"
V0_ERASE_PAGE       == "V0_ERASE_PAGE"
V0_ERASE_WRITE_PAGE == "V0_ERASE_WRITE_PAGE"
V0_PAGE_BUFFER_CLR  == "V0_PAGE_BUFFER_CLR"
V0_CHIP_ERASE       == "V0_CHIP_ERASE"
V0_ERASE_EEPROM     == "V0_ERASE_EEPROM"
V0_WRITE_FUSE       == "V0_WRITE_FUSE"
V1_NOCMD              == "V1_NOCMD"
V1_FLASH_WRITE        == "V1_FLASH_WRITE"
V1_FLASH_PAGE_ERASE   == "V1_FLASH_PAGE_ERASE"
V1_EEPROM_ERASE_WRITE == "V1_EEPROM_ERASE_WRITE"
V1_CHIP_ERASE         == "V1_CHIP_ERASE"
V1_EEPROM_ERASE       == "V1_EEPROM_ERASE"

NoCommand(g) == IF g = 0 THEN V0_NOP ELSE V1_NOCMD

(***************************************************************************)
(* Exceptions.                                                             *)
(***************************************************************************)
E(type, msg)  == [type |-> type, msg |-> msg]
NoExc         == E("", "")
TransportExc  == E("TransportError", "link call failed")

(***************************************************************************)
(* Link accesses of a method body.  k: "wait" (wait_flash_ready, raising   *)
(* x when it returns False), "cmd" (execute_nvm_command), "byte"           *)
(* (readwrite.write_byte to register c), "data" (readwrite.write_data),    *)
(* "words" (readwrite.write_data_words) and "sleep".                       *)
(***************************************************************************)
I(k, c, a, d, x) == [k |-> k, c |-> c, a |-> a, d |-> d, x |-> x]
Wait(x)          == I("wait", "", 0, <<>>, x)
Cmd(c)           == I("cmd", c, 0, <<>>, NoExc)
Byte(r, v)       == I("byte", r, v, <<>>, NoExc)
Data(a, d)       == I("data", "", a, d, NoExc)
Words(a, d)      == I("words", "", a, d, NoExc)
Sleep            == I("sleep", "", 0, <<>>, NoExc)

(***************************************************************************)
(* NvmUpdi.execute_nvm_command: one write_byte to CTRLA.                   *)
(***************************************************************************)
execute_nvm_command(command) == <<Cmd(command)>>

(***************************************************************************)
(* The bit operators of the source: x & y on the low n bits, x >> 8 and    *)
(* x & 0xFF.                                                               *)
(***************************************************************************)
RECURSIVE BitAnd(_, _, _)
BitAnd(a, b, n) ==
    IF n = 0 THEN 0
    ELSE (a % 2) * (b % 2) + 2 * BitAnd(a \div 2, b \div 2, n - 1)
And8(a, b)     == BitAnd(a, b, 8)
ShiftRight8(x) == x \div 256
Low8(x)        == And8(x, 255)

(***************************************************************************)
(* NvmUpdiTinyMega (generation 0).                                         *)
(***************************************************************************)
\* Mutant: chip_erase returns without waiting for the erase to finish.
TinyMega_chip_erase_no_wait_after ==
    <<Wait(E("IOError", "Timeout waiting for flash ready before erase "))>>
    \o execute_nvm_command(V0_CHIP_ERASE)

TinyMega_chip_erase ==
    <<Wait(E("IOError", "Timeout waiting for flash ready before erase "))>>
    \o execute_nvm_command(V0_CHIP_ERASE)
    \o <<Wait(E("IOError", "Timeout waiting for flash ready after erase"))>>

TinyMega_erase_flash_page(address) ==
    <<Wait(E("IOError", "Timeout waiting for flash ready before erase ")),
      Data(address, <<255>>)>>
    \o execute_nvm_command(V0_ERASE_PAGE)
    \o <<Wait(E("IOError", "Timeout waiting for flash ready after erase"))>>

TinyMega_erase_eeprom ==
    <<Wait(E("IOError", "Timeout waiting for flash ready before erase "))>>
    \o execute_nvm_command(V0_ERASE_EEPROM)
    \o <<Wait(E("IOError", "Timeout waiting for flash ready after erase"))>>

\* Mutant: one dummy write whatever the size, as erase_flash_page makes.
TinyMega_erase_user_row_one_dummy(address, size) ==
    TinyMega_erase_flash_page(address)

TinyMega_erase_user_row(address, size) ==
    <<Wait(E("IOError", "Timeout waiting for flash ready before erase "))>>
    \o [offset \in 1..size |-> Data(address + (offset - 1), <<255>>)]
    \o execute_nvm_command(V0_ERASE_PAGE)
    \o <<Wait(E("IOError", "Timeout waiting for flash ready after erase"))>>

\* Mutant: the boundary address 0x4000 is forgotten.
TinyMega_setup_no4000(address, use_word_access, bulkwrite) ==
    bulkwrite = 0 \/ address = \H8000 \/ ~use_word_access

\* Mutant: the setup sequence runs in single mode only.
TinyMega_setup_single_only(address, use_word_access, bulkwrite) == bulkwrite = 0

\* The condition of line 294: the setup sequence runs.
TinyMega_setup(address, use_word_access, bulkwrite) ==
    bulkwrite = 0 \/ address = \H8000 \/ address = \H4000 \/ ~use_word_access

\* Mutant: the final status check runs in single mode only.
TinyMega_final_check_single_only(bulkwrite) == bulkwrite = 0

\* The condition of line 324: the final status check runs.
TinyMega_final_check(bulkwrite) == ~(bulkwrite = 1)

TinyMega_write_nvm(address, data, use_word_access, nvmcommand, bulkwrite) ==
    (IF TinyMega_setup(address, use_word_access, bulkwrite)
     THEN <<Wait(E("PymcuprogError",
                   "Timeout waiting for flash ready before page buffer clear "))>>
          \o execute_nvm_command(V0_PAGE_BUFFER_CLR)
          \o <<Wait(E("PymcuprogError",
                      "Timeout waiting for flash ready after page buffer clear"))>>
     ELSE <<>>)
    \o (IF use_word_access THEN <<Words(address, data)>> ELSE <<Data(address, data)>>)
    \o execute_nvm_command(nvmcommand)
    \o <<Sleep>>
    \o (IF TinyMega_final_check(bulkwrite)
        THEN <<Wait(E("PymcuprogError",
                      "Timeout waiting for flash ready after page write "))>>
        ELSE <<>>)

TinyMega_write_flash(address, data, bulkwrite) ==
    TinyMega_write_nvm(address, data, TRUE, V0_WRITE_PAGE, bulkwrite)

\* Mutant: write_eeprom asks for word access.
TinyMega_write_eeprom_words(address, data) ==
    TinyMega_write_nvm(address, data, TRUE, V0_ERASE_WRITE_PAGE, 0)

TinyMega_write_eeprom(address, data) ==
    TinyMega_write_nvm(address, data, FALSE, V0_ERASE_WRITE_PAGE, 0)

TinyMega_write_user_row(address, data) == TinyMega_write_eeprom(address, data)

\* Mutant: the high address byte is written without its mask.
TinyMega_write_fuse_unmasked(address, data) ==
    <<Wait(E("PymcuprogError",
             "Timeout waiting for flash ready before page buffer clear ")),
      Byte("ADDRL", Low8(address)),
      Byte("ADDRH", ShiftRight8(address)),
      Byte("DATAL", Low8(data[1]))>>
    \o execute_nvm_command(V0_WRITE_FUSE)
    \o <<Wait(E("PymcuprogError",
                "Timeout waiting for flash ready before page buffer clear "))>>

TinyMega_write_fuse(address, data) ==
    <<Wait(E("PymcuprogError",
             "Timeout waiting for flash ready before page buffer clear ")),
      Byte("ADDRL", Low8(address)),
      Byte("ADDRH", Low8(ShiftRight8(address))),
      Byte("DATAL", Low8(data[1]))>>
    \o execute_nvm_command(V0_WRITE_FUSE)
    \o <<Wait(E("PymcuprogError",
                "Timeout waiting for flash ready before page buffer clear "))>>

(***************************************************************************)
(* NvmUpdiAvrDx (generation 1).                                            *)
(***************************************************************************)
AvrDx_chip_erase ==
    <<Wait(E("Exception", "Timeout waiting for flash ready before erase "))>>
    \o execute_nvm_command(V1_CHIP_ERASE)
    \o <<Wait(E("Exception", "Timeout waiting for flash ready after erase"))>>

\* Mutant: the dummy write comes before the command, as on generation 0.
AvrDx_erase_flash_page_dummy_first(address) ==
    <<Wait(E("IOError", "Timeout waiting for flash ready before erase ")),
      Data(address, <<255>>)>>
    \o execute_nvm_command(V1_FLASH_PAGE_ERASE)
    \o <<Wait(E("IOError", "Timeout waiting for flash ready after erase"))>>
    \o execute_nvm_command(V1_NOCMD)

AvrDx_erase_flash_page(address) ==
    <<Wait(E("IOError", "Timeout waiting for flash ready before erase "))>>
    \o execute_nvm_command(V1_FLASH_PAGE_ERASE)
    \o <<Data(address, <<255>>),
         Wait(E("IOError", "Timeout waiting for flash ready after erase"))>>
    \o execute_nvm_command(V1_NOCMD)

AvrDx_erase_eeprom ==
    <<Wait(E("IOError", "Timeout waiting for flash ready before erase "))>>
    \o execute_nvm_command(V1_EEPROM_ERASE)
    \o <<Wait(E("IOError", "Timeout waiting for flash ready after erase"))>>
    \o execute_nvm_command(V1_NOCMD)

AvrDx_erase_user_row(address, size) == AvrDx_erase_flash_page(address)

\* Mutant: the setup sequence runs at the start of flash only.
AvrDx_setup_at_start_only(address, bulkwrite) == address = \H800000

\* Mutant: the setup sequence runs in single mode only.
AvrDx_setup_single_only(address, bulkwrite) == bulkwrite = 0

\* The condition of line 490: the setup sequence runs.
AvrDx_setup(address, bulkwrite) == bulkwrite = 0 \/ address = \H800000

\* The condition of line 506: the final wait and the command clear run.
AvrDx_final_check(bulkwrite) == bulkwrite # 1

AvrDx_write_nvm(address, data, use_word_access, bulkwrite) ==
    (IF AvrDx_setup(address, bulkwrite)
     THEN <<Wait(E("Exception",
                   "Timeout waiting for flash ready before page buffer clear "))>>
          \o execute_nvm_command(V1_FLASH_WRITE)
     ELSE <<>>)
    \o (IF use_word_access THEN <<Words(address, data)>> ELSE <<Data(address, data)>>)
    \o (IF AvrDx_final_check(bulkwrite)
        THEN <<Wait(E("Exception",
                      "Timeout waiting for flash ready after data write"))>>
             \o execute_nvm_command(V1_NOCMD)
        ELSE <<>>)

AvrDx_write_flash(address, data, bulkwrite) ==
    AvrDx_write_nvm(address, data, TRUE, bulkwrite)

AvrDx_write_user_row(address, data) == AvrDx_write_nvm(address, data, FALSE, 0)

\* Mutant: the data is written before the command.
AvrDx_write_eeprom_data_first(address, data) ==
    <<Wait(E("Exception", "Timeout waiting for NVM ready before command write")),
      Data(address, data)>>
    \o execute_nvm_command(V1_EEPROM_ERASE_WRITE)
    \o <<Wait(E("Exception", "Timeout waiting for NVM ready after data write"))>>
    \o execute_nvm_command(V1_NOCMD)

AvrDx_write_eeprom(address, data) ==
    <<Wait(E("Exception", "Timeout waiting for NVM ready before command write"))>>
    \o execute_nvm_command(V1_EEPROM_ERASE_WRITE)
    \o <<Data(address, data),
         Wait(E("Exception", "Timeout waiting for NVM ready after data write"))>>
    \o execute_nvm_command(V1_NOCMD)

AvrDx_write_fuse(address, data) == AvrDx_write_eeprom(address, data)

(***************************************************************************)
(* A call of a public operation and the method body it dispatches to.      *)
(***************************************************************************)
O(name, address, data, size, bulkwrite) ==
    [name |-> name, address |-> address, data |-> data, size |-> size,
     bulkwrite |-> bulkwrite, use_word_access |-> FALSE, nvmcommand |-> ""]

\* A direct call of write_nvm, which takes use_word_access and, on generation
\* 0, nvmcommand as well.
W(address, data, use_word_access, nvmcommand, bulkwrite) ==
    [O("write_nvm", address, data, 0, bulkwrite)
        EXCEPT !.use_word_access = use_word_access, !.nvmcommand = nvmcommand]
NoOp == O("", 0, <<>>, 0, 0)

Body(g, o) ==
    IF g = 0
    THEN CASE o.name = "chip_erase"       -> TinyMega_chip_erase
           [] o.name = "erase_flash_page" -> TinyMega_erase_flash_page(o.address)
           [] o.name = "erase_eeprom"     -> TinyMega_erase_eeprom
           [] o.name = "erase_user_row"   -> TinyMega_erase_user_row(o.address, o.size)
           [] o.name = "write_flash"      -> TinyMega_write_flash(o.address, o.data, o.bulkwrite)
           [] o.name = "write_user_row"   -> TinyMega_write_user_row(o.address, o.data)
           [] o.name = "write_eeprom"     -> TinyMega_write_eeprom(o.address, o.data)
           [] o.name = "write_fuse"       -> TinyMega_write_fuse(o.address, o.data)
           [] o.name = "write_nvm"        ->
                TinyMega_write_nvm(o.address, o.data, o.use_word_access,
                                   o.nvmcommand, o.bulkwrite)
    ELSE CASE o.name = "chip_erase"       -> AvrDx_chip_erase
           [] o.name = "erase_flash_page" -> AvrDx_erase_flash_page(o.address)
           [] o.name = "erase_eeprom"     -> AvrDx_erase_eeprom
           [] o.name = "erase_user_row"   -> AvrDx_erase_user_row(o.address, o.size)
           [] o.name = "write_flash"      -> AvrDx_write_flash(o.address, o.data, o.bulkwrite)
           [] o.name = "write_user_row"   -> AvrDx_write_user_row(o.address, o.data)
           [] o.name = "write_eeprom"     -> AvrDx_write_eeprom(o.address, o.data)
           [] o.name = "write_fuse"       -> AvrDx_write_fuse(o.address, o.data)
           [] o.name = "write_nvm"        ->
                AvrDx_write_nvm(o.address, o.data, o.use_word_access, o.bulkwrite)

(***************************************************************************)
(* The device.  Target memory holds one byte per address; a model page is  *)
(* one block of `blocksize` bytes.                                         *)
(***************************************************************************)
Erased    == 255
NotLoaded == -1

FlashStart(g)  == IF g = 0 THEN \H8000 ELSE \H800000
FlashPages(g)  == {FlashStart(g) + blocksize * i : i \in 0..MaxPages}
                  \cup (IF g = 0 THEN {\H4000} ELSE {})
EepromStart    == \H1400
UserRowStart(g) == IF g = 0 THEN \H1300 ELSE \H1080
FuseAddr(g)    == IF g = 0 THEN \H1280 ELSE \H1050

FlashAddrs(g)   == UNION {{p + i : i \in 0..(blocksize - 1)} : p \in FlashPages(g)}
EepromAddrs     == {EepromStart + i : i \in 0..(blocksize - 1)}
UserRowAddrs(g) == {UserRowStart(g) + i : i \in 0..(MaxSize - 1)}

\* The kind of memory behind an address.
IsFlash(g, a)   == a >= (IF g = 0 THEN \H4000 ELSE \H800000)
IsEeprom(a)     == a \in EepromAddrs
IsUserRow(g, a) == a \in UserRowAddrs(g)

PageOf(a) == a - (a % blocksize)

Dev(st, c, r, pb, m) == [status |-> st, ctrla |-> c, regs |-> r, pagebuf |-> pb, mem |-> m]

CleanBuf(map)   == [a \in map |-> NotLoaded]
ErasedMem(map)  == [a \in map |-> Erased]
Loaded(pb)    == {a \in DOMAIN pb : pb[a] # NotLoaded}

\* Memory after the addresses of S are erased.
EraseSet(m, S) == [a \in DOMAIN m |-> IF a \in S THEN Erased ELSE m[a]]

\* Generation 0: a command written to CTRLA executes at once.
DevCommand0(g, d, c) ==
    LET ld   == Loaded(d.pagebuf)
        busy == IF c = V0_ERASE_WRITE_PAGE THEN {EEPROM_BUSY} ELSE {FLASH_BUSY}
    IN  CASE c = V0_PAGE_BUFFER_CLR ->
               [d EXCEPT !.ctrla = c, !.pagebuf = CleanBuf(DOMAIN d.mem)]
          [] c = V0_WRITE_PAGE ->
               [d EXCEPT !.ctrla = c, !.pagebuf = CleanBuf(DOMAIN d.mem),
                         !.status = @ \cup busy,
                         !.mem = [a \in DOMAIN d.mem |->
                                    IF a \in ld THEN And8(d.mem[a], d.pagebuf[a])
                                    ELSE d.mem[a]]]
          [] c = V0_ERASE_WRITE_PAGE ->
               [d EXCEPT !.ctrla = c, !.pagebuf = CleanBuf(DOMAIN d.mem),
                         !.status = @ \cup busy,
                         !.mem = [a \in DOMAIN d.mem |->
                                    IF a \in ld THEN d.pagebuf[a] ELSE d.mem[a]]]
          [] c = V0_ERASE_PAGE ->
               [d EXCEPT !.ctrla = c, !.pagebuf = CleanBuf(DOMAIN d.mem),
                         !.status = @ \cup busy,
                         !.mem = EraseSet(d.mem,
                                    {a \in DOMAIN d.mem : PageOf(a) \in {PageOf(b) : b \in ld}})]
          [] c = V0_CHIP_ERASE ->
               [d EXCEPT !.ctrla = c, !.pagebuf = CleanBuf(DOMAIN d.mem),
                         !.status = @ \cup {FLASH_BUSY, EEPROM_BUSY},
                         !.mem = EraseSet(d.mem,
                                    {a \in DOMAIN d.mem : IsFlash(g, a) \/ IsEeprom(a)})]
          [] c = V0_ERASE_EEPROM ->
               [d EXCEPT !.ctrla = c, !.status = @ \cup {EEPROM_BUSY},
                         !.mem = EraseSet(d.mem, EepromAddrs)]
          [] c = V0_WRITE_FUSE ->
               LET fa == d.regs.ADDRH * 256 + d.regs.ADDRL IN
               [d EXCEPT !.ctrla = c, !.status = @ \cup {EEPROM_BUSY},
                         !.mem = [a \in DOMAIN d.mem |->
                                    IF a = fa THEN d.regs.DATAL ELSE d.mem[a]]]
          [] OTHER -> [d EXCEPT !.ctrla = c]

\* Generation 1: a command is latched; the erase commands execute at once.
DevCommand1(g, d, c) ==
    CASE c = V1_CHIP_ERASE ->
           [d EXCEPT !.ctrla = c, !.status = @ \cup {FLASH_BUSY, EEPROM_BUSY},
                     !.mem = EraseSet(d.mem,
                                {a \in DOMAIN d.mem :
                                    IsFlash(g, a) \/ IsUserRow(g, a) \/ IsEeprom(a)})]
      [] c = V1_EEPROM_ERASE ->
           [d EXCEPT !.ctrla = c, !.status = @ \cup {EEPROM_BUSY},
                     !.mem = EraseSet(d.mem, EepromAddrs)]
      [] OTHER -> [d EXCEPT !.ctrla = c]

DevCommand(g, d, c) == IF g = 0 THEN DevCommand0(g, d, c) ELSE DevCommand1(g, d, c)

\* The bytes stored by one link write: address -> byte.
Span(address, bytes) == {address + (i - 1) : i \in 1..Len(bytes)}
ByteAt(address, bytes, a) == bytes[a - address + 1]

\* Generation 0: a store to target memory loads the page buffer.
DevStore0(g, d, address, bytes) ==
    [d EXCEPT !.pagebuf =
        [a \in DOMAIN d.pagebuf |->
            IF a \in Span(address, bytes)
            THEN IF d.pagebuf[a] = NotLoaded THEN ByteAt(address, bytes, a)
                 ELSE And8(d.pagebuf[a], ByteAt(address, bytes, a))
            ELSE d.pagebuf[a]]]

\* Generation 1: a store takes effect as the latched command says.
DevStore1(g, d, address, bytes) ==
    LET hit == Span(address, bytes) \cap DOMAIN d.mem IN
    CASE d.ctrla = V1_FLASH_WRITE ->
           [d EXCEPT !.status = @ \cup {FLASH_BUSY},
                     !.mem = [a \in DOMAIN d.mem |->
                                IF a \in hit THEN And8(d.mem[a], ByteAt(address, bytes, a))
                                ELSE d.mem[a]]]
      [] d.ctrla = V1_FLASH_PAGE_ERASE ->
           [d EXCEPT !.status = @ \cup {FLASH_BUSY},
                     !.mem = EraseSet(d.mem,
                                {a \in DOMAIN d.mem : PageOf(a) \in {PageOf(b) : b \in hit}})]
      [] d.ctrla = V1_EEPROM_ERASE_WRITE ->
           [d EXCEPT !.status = @ \cup {EEPROM_BUSY},
                     !.mem = [a \in DOMAIN d.mem |->
                                IF a \in hit THEN ByteAt(address, bytes, a) ELSE d.mem[a]]]
      [] OTHER -> d

DevStore(g, d, address, bytes) ==
    IF g = 0 THEN DevStore0(g, d, address, bytes) ELSE DevStore1(g, d, address, bytes)

DevRegWrite(d, reg, value) == [d EXCEPT !.regs[reg] = value]

(***************************************************************************)
(* The link (readwrite).  write_data sends the bytes as they are;          *)
(* write_data_words packs them into little-endian 16-bit words, which the  *)
(* device stores low byte first.  read_data returns target memory.         *)
(***************************************************************************)
PackWords(data) ==
    [i \in 1..(Len(data) \div 2) |-> data[2 * i - 1] + 256 * data[2 * i]]
UnpackWords(ws) ==
    [i \in 1..(2 * Len(ws)) |->
        IF i % 2 = 1 THEN ws[(i + 1) \div 2] % 256 ELSE ws[i \div 2] \div 256]

write_data(g, d, address, data) == DevStore(g, d, address, data)
write_data_words(g, d, address, data) ==
    DevStore(g, d, address, UnpackWords(PackWords(data)))
read_data(m, address, size) == [i \in 1..size |-> m[address + (i - 1)]]

(***************************************************************************)
(* NvmUpdi.wait_flash_ready.                                               *)
(***************************************************************************)
Min(a, b) == IF a < b THEN a ELSE b

\* Timeout.expired(): the deadline has passed.
expired(e) == e >= Deadline

\* Mutant: the loop never tests the deadline (while True).
LoopForever(e) == TRUE

\* Line 96: the loop runs another iteration.
LoopContinues(e) == ~expired(e)

\* Mutant: the busy test forgets EEPROM_BUSY.
Decide_FlashBusyOnly(st) ==
    IF WRITE_ERROR \in st THEN "error"
    ELSE IF FLASH_BUSY \notin st THEN "ready"
    ELSE "again"

\* Mutant: the busy bits are tested before WRITE_ERROR.
Decide_BusyFirst(st) ==
    IF st \cap {EEPROM_BUSY, FLASH_BUSY} # {} THEN "again"
    ELSE IF WRITE_ERROR \in st THEN "error"
    ELSE "ready"

\* Lines 98-104: what one status read decides.
Decide(st) ==
    IF WRITE_ERROR \in st THEN "error"
    ELSE IF st \cap {EEPROM_BUSY, FLASH_BUSY} = {} THEN "ready"
    ELSE "again"

\* Mutant: the caller ignores what wait_flash_ready returns.
RaisesNever(ready) == FALSE

\* The callers' `if not self.wait_flash_ready(): raise ...`.
RaisesOn(ready) == ~ready

(***************************************************************************)
(* The link log.                                                           *)
(***************************************************************************)
T(k, c, a, d) == [k |-> k, c |-> c, a |-> a, d |-> d]
Last(s)       == s[Len(s)]
Polling       == trace # <<>> /\ Last(trace).k = "wait" /\ Last(trace).c = "polling"

(***************************************************************************)
(* Driver steps.                                                           *)
(***************************************************************************)
Running == pc > 0
At(k)   == Running /\ prog[pc].k = k

\* The operation goes on to its next link access, or returns.
Advance ==
    /\ pc' = IF pc = Len(prog) THEN 0 ELSE pc + 1
    /\ outcome' = IF pc = Len(prog) THEN "returned" ELSE outcome
    /\ exc' = exc

\* The operation ends by raising x.
Raise(x) ==
    /\ pc' = 0
    /\ outcome' = "raised"
    /\ exc' = x

SetDev(d) ==
    /\ status' = d.status
    /\ ctrla' = d.ctrla
    /\ regs' = d.regs
    /\ pagebuf' = d.pagebuf
    /\ mem' = d.mem

CurDev == Dev(status, ctrla, regs, pagebuf, mem)

\* A caller invokes public operation o on the idle controller.
Call(o) ==
    /\ pc = 0
    /\ op' = o
    /\ prog' = Body(gen, o)
    /\ pc' = 1
    /\ elapsed' = 0
    /\ outcome' = "running"
    /\ exc' = NoExc
    /\ cause' = ""
    /\ trace' = <<>>
    /\ fresh' = \A a \in Span(o.address, o.data) \cap DOMAIN mem : mem[a] = Erased
    /\ UNCHANGED <<gen, devvars>>

\* One iteration of the loop of wait_flash_ready, and the caller's test of
\* the returned value when the loop ends.
wait_flash_ready ==
    /\ At("wait")
    /\ LET base  == IF Polling THEN SubSeq(trace, 1, Len(trace) - 1) ELSE trace
           Returns(ready) ==
               /\ elapsed' = 0
               /\ IF RaisesOn(ready) THEN Raise(prog[pc].x) ELSE Advance
       IN  IF ~LoopContinues(elapsed)
           THEN /\ trace' = Append(base, T("wait", "timeout", 0, <<>>))
                /\ cause' = "timeout"
                /\ Returns(FALSE)
           ELSE LET verdict == Decide(status) IN
                /\ trace' = Append(base, T("wait",
                                IF verdict = "again" THEN "polling" ELSE verdict,
                                0, <<>>))
                /\ CASE verdict = "error" -> cause' = "write_error" /\ Returns(FALSE)
                     [] verdict = "ready" -> cause' = cause /\ Returns(TRUE)
                     [] OTHER -> /\ \E dt \in 1..2 : elapsed' = Min(elapsed + dt, Deadline + 1)
                                 /\ UNCHANGED <<pc, outcome, exc, cause>>
    /\ UNCHANGED <<gen, devvars, op, prog, fresh>>

\* execute_nvm_command: write_byte to CTRLA.
StepCommand ==
    /\ At("cmd")
    /\ SetDev(DevCommand(gen, CurDev, prog[pc].c))
    /\ trace' = Append(trace, T("cmd", prog[pc].c, 0, <<>>))
    /\ Advance
    /\ UNCHANGED <<gen, op, prog, elapsed, cause, fresh>>

\* readwrite.write_byte to ADDRL, ADDRH or DATAL.
StepWriteByte ==
    /\ At("byte")
    /\ SetDev(DevRegWrite(CurDev, prog[pc].c, prog[pc].a))
    /\ trace' = Append(trace, T("byte", prog[pc].c, prog[pc].a, <<>>))
    /\ Advance
    /\ UNCHANGED <<gen, op, prog, elapsed, cause, fresh>>

\* readwrite.write_data to target memory.
StepWriteData ==
    /\ At("data")
    /\ SetDev(write_data(gen, CurDev, prog[pc].a, prog[pc].d))
    /\ trace' = Append(trace, T("data", "", prog[pc].a, prog[pc].d))
    /\ Advance
    /\ UNCHANGED <<gen, op, prog, elapsed, cause, fresh>>

\* readwrite.write_data_words to target memory.
StepWriteWords ==
    /\ At("words")
    /\ SetDev(write_data_words(gen, CurDev, prog[pc].a, prog[pc].d))
    /\ trace' = Append(trace, T("words", "", prog[pc].a, prog[pc].d))
    /\ Advance
    /\ UNCHANGED <<gen, op, prog, elapsed, cause, fresh>>

\* sleep(0.001) after the commit.
StepSleep ==
    /\ At("sleep")
    /\ Advance
    /\ UNCHANGED <<gen, devvars, op, prog, elapsed, cause, trace, fresh>>

\* The link call the driver is about to make fails; the exception propagates.
TransportError ==
    /\ Running
    /\ prog[pc].k # "sleep"
    /\ prog[pc].k = "wait" => LoopContinues(elapsed)
    /\ trace' = Append(trace, T("transport", prog[pc].k, 0, <<>>))
    /\ cause' = "transport"
    /\ elapsed' = 0
    /\ Raise(TransportExc)
    /\ UNCHANGED <<gen, devvars, op, prog, fresh>>

\* The device finishes what it is busy with, with or without a write error.
DeviceDone ==
    /\ IsBusy(status)
    /\ \E err \in {{}, {WRITE_ERROR}} : status' = (status \ BusyBits) \cup err
    /\ UNCHANGED <<gen, ctrla, regs, pagebuf, mem, op, prog, pc, elapsed,
                   outcome, exc, cause, trace, fresh>>

(***************************************************************************)
(* The calls a caller makes.                                               *)
(***************************************************************************)
FlashData == {<<\H34, \H12>>}
ByteData  == {<<\HA5, \H5A>>}
FuseData  == {<<0>>}
BulkModes == {0, 1, 2}

Calls(g) ==
    {O("chip_erase", 0, <<>>, 0, 0), O("erase_eeprom", 0, <<>>, 0, 0)}
    \cup {O("erase_flash_page", a, <<>>, 0, 0) : a \in FlashPages(g)}
    \cup {O("erase_user_row", UserRowStart(g), <<>>, n, 0) : n \in 0..MaxSize}
    \cup {O("write_flash", a, d, 0, b) : a \in FlashPages(g), d \in FlashData, b \in BulkModes}
    \cup {O("write_user_row", UserRowStart(g), d, 0, 0) : d \in ByteData}
    \cup {O("write_eeprom", EepromStart, d, 0, 0) : d \in ByteData}
    \cup {O("write_fuse", FuseAddr(g), d, 0, 0) : d \in FuseData}

\* What the caller has seen raised: by which operation, which exception.
Seen(name, x) == [op |-> name, exc |-> x]
NoneSeen      == [write_error |-> Seen("", NoExc), timeout |-> Seen("", NoExc)]

NoPlan == [start |-> 0, n |-> 0, final |-> 0, data |-> <<>>]

\* The state after construction, against an idle, erased device whose target
\* memory is observed at the addresses of map[gen].
InitWith(map) ==
    /\ gen \in {0, 1}
    /\ status = {}
    /\ ctrla = NoCommand(gen)
    /\ regs = [ADDRL |-> 0, ADDRH |-> 0, DATAL |-> 0]
    /\ pagebuf = CleanBuf(map[gen])
    /\ mem = ErasedMem(map[gen])
    /\ op = NoOp
    /\ prog = <<>>
    /\ pc = 0
    /\ elapsed = 0
    /\ outcome = "none"
    /\ exc = NoExc
    /\ cause = ""
    /\ trace = <<>>
    /\ fresh = FALSE
    /\ raisedFor = NoneSeen

NoSession == plan = NoPlan /\ phase = "" /\ done = 0 /\ bulkMem = <<>>

(***************************************************************************)
(* Spec: any sequence of public operations on either generation.  Target   *)
(* memory is observed at the fuse byte only.                               *)
(***************************************************************************)
FuseOnly == [g \in {0, 1} |-> {FuseAddr(g)}]
Init == InitWith(FuseOnly) /\ NoSession

Quiet == UNCHANGED <<raisedFor, sessionvars>>

CallAny        == (\E o \in Calls(gen) : Call(o)) /\ Quiet
WaitFlashReady == wait_flash_ready /\ Quiet
Command        == StepCommand /\ Quiet
WriteByte      == StepWriteByte /\ Quiet
WriteData      == StepWriteData /\ Quiet
WriteWords     == StepWriteWords /\ Quiet
SleepDone      == StepSleep /\ Quiet
LinkFails      == TransportError /\ Quiet
DeviceFinishes == DeviceDone /\ Quiet

Next ==
    \/ CallAny
    \/ WaitFlashReady
    \/ Command
    \/ WriteByte
    \/ WriteData
    \/ WriteWords
    \/ SleepDone
    \/ LinkFails
    \/ DeviceFinishes

Spec == Init /\ [][Next]_vars

(***************************************************************************)
(* Properties.                                                             *)
(***************************************************************************)
\* A link access that may leave the controller busy: a command, and on
\* generation 1 a store made under the latched command.
MakesBusy(e) == e.k = "cmd" \/ (gen = 1 /\ e.k \in {"data", "words"})

\* The link log holds a ready-wait that reported ready, with no access after
\* it that may have made the controller busy.
ReadySince ==
    \E j \in 1..Len(trace) :
        /\ trace[j].k = "wait" /\ trace[j].c = "ready"
        /\ \A m \in (j + 1)..Len(trace) : ~MakesBusy(trace[m])

\* The running operation is a flash write that skips its setup sequence.
BulkNoSetup ==
    /\ op.name = "write_flash"
    /\ op.bulkwrite # 0
    /\ IF gen = 0 THEN op.address \notin {\H8000, \H4000} ELSE op.address # \H800000

\* C1 as stated, its first clause: no command code is written to the command
\* register while the status has EEPROM_BUSY or FLASH_BUSY set.
C1_NoCommandWhileBusy ==
    [][StepCommand => ~IsBusy(status)]_vars

\* C1 amended: no command code is written while the status is busy, and every
\* command write is preceded, since the last access that can make the
\* controller busy, by a ready-wait that reported ready; except the commit command of
\* a generation-0 write_flash in bulk-continue or bulk-final mode that skips
\* its setup (address neither 0x8000 nor 0x4000).
C1_NoCommandWhileBusyButBulk ==
    [][(StepCommand /\ ~(gen = 0 /\ BulkNoSetup))
          => (~IsBusy(status) /\ ReadySince)]_vars

\* C1 witness: a single-mode generation-0 flash write has issued its commit
\* after its ready-wait, and the controller is now busy with it.
C1_Witness ==
    /\ gen = 0 /\ op.name = "write_flash" /\ op.bulkwrite = 0
    /\ trace # <<>> /\ Last(trace) = T("cmd", V0_WRITE_PAGE, 0, <<>>)
    /\ FLASH_BUSY \in status

\* The kind of the first link access of the operation called last (a link call
\* that failed counts as the access it attempted).
FirstAccess == IF trace[1].k = "transport" THEN trace[1].c ELSE trace[1].k

\* C2 as stated: every public operation performs a ready-wait as its first
\* link access.
C2_WaitFirst == trace # <<>> => FirstAccess = "wait"

\* C2 amended: every public operation performs a ready-wait as its first link
\* access, except a write_flash in bulk-continue or bulk-final mode that skips
\* its setup (generation 0: address neither 0x8000 nor 0x4000; generation 1:
\* address not 0x800000), whose first link access is the word-wise write of
\* its data to target memory.
C2_WaitFirstButBulk ==
    trace # <<>> => FirstAccess = (IF BulkNoSetup THEN "words" ELSE "wait")

\* C2 witness: a bulk write at a boundary address opened with a ready-wait and
\* went on to clear the page buffer.
C2_Witness ==
    /\ gen = 0 /\ op.name = "write_flash" /\ op.bulkwrite = 1 /\ op.address = \H4000
    /\ Len(trace) = 2 /\ trace[1] = T("wait", "ready", 0, <<>>)
    /\ trace[2] = T("cmd", V0_PAGE_BUFFER_CLR, 0, <<>>)

\* The command-register writes of the operation called last.
CmdWrites == SelectSeq(trace, LAMBDA e : e.k = "cmd")

\* C3 as stated: a generation-1 operation that wrote a command other than NOCMD
\* and returned has written NOCMD as its last command write, and the command
\* register holds NOCMD, unless it is a bulk-continue flash write.
C3_NoCmdOnReturn ==
    (/\ gen = 1 /\ outcome = "returned"
     /\ \E i \in 1..Len(CmdWrites) : CmdWrites[i].c # V1_NOCMD
     /\ ~(op.name = "write_flash" /\ op.bulkwrite = 1))
    => (Last(CmdWrites).c = V1_NOCMD /\ ctrla = V1_NOCMD)

\* C3, every operation but chip_erase: the same statement with chip_erase left
\* out holds, so chip_erase is the only operation that breaks it.
C3_AllButChipErase ==
    (/\ gen = 1 /\ outcome = "returned" /\ op.name # "chip_erase"
     /\ \E i \in 1..Len(CmdWrites) : CmdWrites[i].c # V1_NOCMD
     /\ ~(op.name = "write_flash" /\ op.bulkwrite = 1))
    => (Last(CmdWrites).c = V1_NOCMD /\ ctrla = V1_NOCMD)

\* The call being made continues a bulk flash-write sequence.
ContinuesBulk ==
    /\ op.name = "write_flash" /\ op.bulkwrite = 1
    /\ op'.name = "write_flash" /\ op'.bulkwrite \in {1, 2}

\* C4 as stated: on generation 1 the command register holds NOCMD whenever an
\* operation begins that does not continue a bulk flash-write sequence.
C4_NoCmdAtCall ==
    [][(gen = 1 /\ pc = 0 /\ pc' = 1 /\ ~ContinuesBulk) => ctrla = V1_NOCMD]_vars

\* How the ready-wait of the running operation stands after a step.
WaitEnds(how) == Last(trace').k = "wait" /\ Last(trace').c = how

\* C5: a step of the ready-wait that reads the status ends the wait with
\* failure when WRITE_ERROR is set, whatever the busy bits; otherwise ends it
\* with ready when neither busy bit is set; otherwise leaves it polling.  The
\* wait reports ready only on a read with WRITE_ERROR, EEPROM_BUSY and
\* FLASH_BUSY all clear, decides on the status as it is at that read, and
\* writes nothing to the device.
C5_WaitPriority ==
    [][wait_flash_ready =>
        /\ (~expired(elapsed) /\ WRITE_ERROR \in status)
              => (WaitEnds("error") /\ outcome' = "raised" /\ pc' = 0)
        /\ (~expired(elapsed) /\ WRITE_ERROR \notin status /\ ~IsBusy(status))
              => (WaitEnds("ready") /\ outcome' # "raised")
        /\ (~expired(elapsed) /\ WRITE_ERROR \notin status /\ IsBusy(status))
              => (WaitEnds("polling") /\ pc' = pc /\ outcome' = "running")
        /\ WaitEnds("ready") => status \cap StatusBits = {}
        /\ UNCHANGED devvars
      ]_vars

\* C5 witness: a ready-wait has ended with failure on a read that showed
\* WRITE_ERROR together with a busy bit.
C5_Witness ==
    /\ trace # <<>> /\ Last(trace) = T("wait", "error", 0, <<>>)
    /\ WRITE_ERROR \in status /\ IsBusy(status)
    /\ outcome = "raised" /\ cause = "write_error"

(***************************************************************************)
(* FairSpec: the driver is a sequential program that keeps running, so a   *)
(* step of the running operation that stays possible is eventually taken.  *)
(* Nothing is assumed of the device (it may stay busy for ever), of the     *)
(* link (it need not fail) or of the caller (it need not call again).      *)
(***************************************************************************)
DriverStep ==
    WaitFlashReady \/ Command \/ WriteByte \/ WriteData \/ WriteWords \/ SleepDone

FairSpec == Spec /\ WF_vars(DriverStep)

\* C6: a ready-wait that has begun ends, and so does every public operation,
\* also against a device whose busy bit never clears; a ready-wait whose
\* deadline has expired stops polling, reports timeout and makes the
\* operation raise.
C6_WaitTerminates ==
    /\ At("wait") ~> ~At("wait")
    /\ Running ~> ~Running
    /\ [][(wait_flash_ready /\ expired(elapsed))
            => (WaitEnds("timeout") /\ outcome' = "raised" /\ status' = status)]_vars

\* C6 witness: an operation has raised after a ready-wait timed out against a
\* device that is still busy and has reported no error.
C6_Witness ==
    /\ outcome = "raised" /\ cause = "timeout"
    /\ trace # <<>> /\ Last(trace) = T("wait", "timeout", 0, <<>>)
    /\ IsBusy(status) /\ WRITE_ERROR \notin status

(***************************************************************************)
(* OutcomeSpec: the caller keeps, for each cause of a failed ready-wait,   *)
(* the operation and the exception it last saw raised for that cause.      *)
(***************************************************************************)
OutcomeCalls(g) ==
    {O("chip_erase", 0, <<>>, 0, 0), O("erase_eeprom", 0, <<>>, 0, 0),
     O("erase_flash_page", FlashStart(g), <<>>, 0, 0),
     O("erase_user_row", UserRowStart(g), <<>>, 1, 0),
     O("write_user_row", UserRowStart(g), <<\HA5, \H5A>>, 0, 0),
     O("write_eeprom", EepromStart, <<\HA5, \H5A>>, 0, 0),
     O("write_fuse", FuseAddr(g), <<0>>, 0, 0)}
    \cup {O("write_flash", FlashStart(g) + blocksize, <<\H34, \H12>>, 0, b) : b \in BulkModes}

\* The caller catches what a failed ready-wait made the operation raise.
Caught ==
    raisedFor' = IF outcome' = "raised" /\ cause' \in {"write_error", "timeout"}
                 THEN [raisedFor EXCEPT ![cause'] = Seen(op.name, exc')]
                 ELSE raisedFor

OutcomeCall  == (\E o \in OutcomeCalls(gen) : Call(o)) /\ Quiet
OutcomeWait  == wait_flash_ready /\ Caught /\ UNCHANGED sessionvars

OutcomeNext ==
    \/ OutcomeCall
    \/ OutcomeWait
    \/ Command
    \/ WriteByte
    \/ WriteData
    \/ WriteWords
    \/ SleepDone
    \/ DeviceFinishes

OutcomeSpec == Init /\ [][OutcomeNext]_vars

\* C7 as stated: a ready-wait ended by WRITE_ERROR and a ready-wait ended by
\* the deadline are surfaced to the caller of the operation as two
\* distinguishable failures: what an operation raises for the one cause is
\* never what the same operation raises for the other.
C7_Distinguishable ==
    (raisedFor.write_error.op # "" /\ raisedFor.timeout.op # "")
        => raisedFor.write_error # raisedFor.timeout

\* A fatal condition in the link log: a ready-wait that reported failure, or
\* a link call that failed.
Fatal(e) == (e.k = "wait" /\ e.c \in {"error", "timeout"}) \/ e.k = "transport"

\* C8: the first fatal condition of an operation is its last link access: the
\* operation has raised and is no longer running (so it makes no further
\* command write, memory write or status read and does not return), and no
\* operation writes the same command twice.
C8_AbortOnFirstFatal ==
    /\ \A i \in 1..Len(trace) :
          Fatal(trace[i]) =>
              /\ i = Len(trace)
              /\ outcome = "raised" /\ exc # NoExc /\ pc = 0
    /\ outcome = "raised" => (trace # <<>> /\ Fatal(Last(trace)))
    /\ \A i, j \in 1..Len(CmdWrites) : i # j => CmdWrites[i] # CmdWrites[j]

\* C8 witness: an operation that had issued its command raised on the
\* WRITE_ERROR its second ready-wait observed.
C8_Witness ==
    /\ outcome = "raised" /\ cause = "write_error" /\ pc = 0
    /\ Len(trace) >= 3 /\ Last(trace) = T("wait", "error", 0, <<>>)
    /\ Len(CmdWrites) = 1

(***************************************************************************)
(* BulkSpec: a caller programs plan.n consecutive flash pages of an erased *)
(* device with write_flash in bulk mode, then programs a second, identical *)
(* erased device with the same pages in single mode.  bulkMem keeps the    *)
(* target memory the bulk pass left behind.                                *)
(***************************************************************************)
BulkData == {<<\H34, \H12>>, <<\HCD, \HAB>>}

FlashOnly == [g \in {0, 1} |-> FlashAddrs(g)]

Plans(g) ==
    UNION {{[start |-> s, n |-> k, final |-> f, data |-> d] :
               s \in {p \in FlashPages(g) : p + blocksize * (k - 1) \in FlashPages(g)},
               f \in {0, 2},
               d \in [1..k -> BulkData]} : k \in 1..MaxPages}

\* The bulkwrite argument of the next write_flash call of the session.
ModeOf(ph, k, p) ==
    IF ph = "single" THEN 0
    ELSE IF k < p.n THEN 1
    ELSE p.final

BulkInit ==
    /\ InitWith(FlashOnly)
    /\ plan \in Plans(gen)
    /\ phase = "bulk"
    /\ done = 0
    /\ bulkMem = ErasedMem(FlashOnly[gen])

\* The caller writes the next page, provided the previous call returned.
SessionCall ==
    /\ phase \in {"bulk", "single"}
    /\ done < plan.n
    /\ outcome \in {"none", "returned"}
    /\ Call(O("write_flash", plan.start + blocksize * done, plan.data[done + 1],
              0, ModeOf(phase, done + 1, plan)))
    /\ done' = done + 1
    /\ UNCHANGED <<raisedFor, plan, phase, bulkMem>>

\* The bulk pass is complete: keep its result and start over, in single
\* mode, on an erased device.
SessionSwitch ==
    /\ phase = "bulk"
    /\ done = plan.n
    /\ pc = 0
    /\ outcome = "returned"
    /\ bulkMem' = mem
    /\ phase' = "single"
    /\ done' = 0
    /\ status' = {}
    /\ ctrla' = NoCommand(gen)
    /\ pagebuf' = CleanBuf(DOMAIN mem)
    /\ mem' = ErasedMem(DOMAIN mem)
    /\ UNCHANGED <<gen, regs, op, prog, pc, elapsed, outcome, exc, cause, trace,
                   fresh, raisedFor, plan>>

BulkNext ==
    \/ SessionCall
    \/ SessionSwitch
    \/ WaitFlashReady
    \/ Command
    \/ WriteWords
    \/ SleepDone
    \/ DeviceFinishes

BulkSpec == BulkInit /\ [][BulkNext]_vars

\* Both passes of the session have returned from their last call.
BothDone == phase = "single" /\ done = plan.n /\ pc = 0 /\ outcome = "returned"

\* What the plan's pages should hold on flash that was erased.
Planned(p) ==
    [a \in DOMAIN mem |->
        IF \E k \in 1..p.n : a \in Span(p.start + blocksize * (k - 1), p.data[k])
        THEN LET k == CHOOSE k \in 1..p.n : a \in Span(p.start + blocksize * (k - 1), p.data[k])
             IN  ByteAt(p.start + blocksize * (k - 1), p.data[k], a)
        ELSE Erased]

\* C9: when both passes have returned, the bulk pass and the single pass
\* have left the same target memory contents.
C9_BulkEqualsSingle == BothDone => mem = bulkMem

\* The single pass always leaves the planned contents.
C9_SingleLands == BothDone => mem = Planned(plan)

\* The bulk pass equals the single pass on generation 0, and on generation
\* 1 when the first page is at the start of flash.
C9_EqualFromFlashStart ==
    (BothDone /\ (gen = 0 \/ plan.start = FlashStart(gen))) => mem = bulkMem

(***************************************************************************)
(* MemSpec: single-mode writes and erases in any order, with the target    *)
(* memory observed at one flash page, the EEPROM page, the user row and    *)
(* the fuse byte.                                                          *)
(***************************************************************************)
MemPage(g) == FlashStart(g) + blocksize

Observed ==
    [g \in {0, 1} |->
        {MemPage(g) + i : i \in 0..(blocksize - 1)}
        \cup EepromAddrs \cup UserRowAddrs(g) \cup {FuseAddr(g)}]

WriteNames == {"write_flash", "write_eeprom", "write_user_row", "write_fuse"}

MemCalls(g) ==
    {O("chip_erase", 0, <<>>, 0, 0), O("erase_eeprom", 0, <<>>, 0, 0),
     O("erase_flash_page", MemPage(g), <<>>, 0, 0),
     O("erase_user_row", UserRowStart(g), <<>>, MaxSize, 0)}
    \cup {O("write_flash", MemPage(g), d, 0, 0) : d \in BulkData}
    \cup {O("write_user_row", UserRowStart(g), d, 0, 0) : d \in ByteData}
    \cup {O("write_eeprom", EepromStart, d, 0, 0) : d \in ByteData}
    \cup {O("write_fuse", FuseAddr(g), d, 0, 0) : d \in FuseData}

MemInit == InitWith(Observed) /\ NoSession

MemCall == (\E o \in MemCalls(gen) : Call(o)) /\ Quiet

MemNext ==
    \/ MemCall
    \/ WaitFlashReady
    \/ Command
    \/ WriteByte
    \/ WriteData
    \/ WriteWords
    \/ SleepDone
    \/ LinkFails
    \/ DeviceFinishes

MemSpec == MemInit /\ [][MemNext]_vars

\* The last operation was a single-mode write into an erased range, and it
\* returned.
WroteFresh ==
    /\ outcome = "returned"
    /\ op.name \in WriteNames
    /\ op.bulkwrite = 0
    /\ fresh

\* C10: after a single-mode write into a freshly erased range has returned,
\* reading the range back yields the data written.
C10_WriteThenRead ==
    WroteFresh => read_data(mem, op.address, Len(op.data)) = op.data

\* C10 witness: a word-wide flash write into an erased page returned after
\* an earlier operation had been made, and the page reads back as written.
C10_Witness ==
    /\ WroteFresh
    /\ op.name = "write_flash"
    /\ op.data = <<\HCD, \HAB>>
    /\ mem[EepromStart] # Erased
    /\ read_data(mem, op.address, Len(op.data)) = op.data

\* The byte-wide writes reach that case too.
C10_ByteWitness ==
    /\ WroteFresh
    /\ op.name = "write_eeprom"
    /\ read_data(mem, op.address, Len(op.data)) = op.data

\* Without the erased range the read-back may differ from the data.
C10_AlsoWhenNotErased ==
    (outcome = "returned" /\ op.name \in WriteNames /\ op.bulkwrite = 0)
        => read_data(mem, op.address, Len(op.data)) = op.data

(***************************************************************************)
(* The link sequence of an operation: its link log without the status      *)
(* reads that found the controller still busy.                             *)
(***************************************************************************)
Log == SelectSeq(trace, LAMBDA e : ~(e.k = "wait" /\ e.c = "polling"))

WaitOk        == T("wait", "ready", 0, <<>>)
CmdEv(c)      == T("cmd", c, 0, <<>>)
ByteEv(r, v)  == T("byte", r, v, <<>>)
DataEv(a, d)  == T("data", "", a, d)
WordsEv(a, d) == T("words", "", a, d)

\* Access i of the link sequence is the one expected there, or it is the last
\* access and the failure of the one expected there.
Matches(i, expected) ==
    IF i = Len(Log) /\ Fatal(Log[i])
    THEN IF Log[i].k = "wait" THEN expected[i] = WaitOk
         ELSE Log[i].c = expected[i].k
    ELSE Log[i] = expected[i]

\* The operation called last begins with the link sequence `expected`.
Begins(expected) ==
    \A i \in 1..Min(Len(Log), Len(expected)) : Matches(i, expected)

\* The running operation has made its last link access and has only the
\* sleep after its commit left before it returns.
OnlySleepLeft == At("sleep") /\ pc = Len(prog)

\* The operation called last performs the link sequence `expected`: what it
\* has done so far is the beginning of `expected`, but that its last access
\* may be the failure of the access expected there; it returns exactly
\* when it has performed all of `expected` (after the sleep that follows a
\* generation-0 commit), and has raised exactly when its last access failed.
Performs(expected) ==
    /\ Len(Log) <= Len(expected)
    /\ \A i \in 1..Len(Log) : Matches(i, expected)
    /\ outcome = "returned" => Log = expected
    /\ Log = expected => (outcome = "returned" \/ OnlySleepLeft)
    /\ (outcome = "raised") <=> (Log # <<>> /\ Fatal(Last(Log)))

\* C11: generation-0 chip_erase performs ready-wait, CHIP_ERASE, ready-wait
\* and no other link write; it returns exactly when both waits reported
\* ready, writes no CHIP_ERASE after a failed first wait, and raises when a
\* wait fails.
C11_ChipErase0 ==
    (gen = 0 /\ op.name = "chip_erase")
        => Performs(<<WaitOk, CmdEv(V0_CHIP_ERASE), WaitOk>>)

\* C11 witness: a generation-0 chip erase has returned after its three
\* accesses.
C11_Witness ==
    /\ gen = 0 /\ op.name = "chip_erase" /\ outcome = "returned"
    /\ Log = <<WaitOk, CmdEv(V0_CHIP_ERASE), WaitOk>>

\* A generation-0 chip erase whose first ready-wait failed has raised without
\* writing anything.
C11_FirstWaitFails ==
    /\ gen = 0 /\ op.name = "chip_erase" /\ outcome = "raised"
    /\ Len(Log) = 1 /\ Log[1].k = "wait"

(***************************************************************************)
(* FuseSpec: generation-0 write_fuse with addresses below and above 16     *)
(* bits and with data of one byte, of one value wider than a byte, and of  *)
(* two bytes; the fuse bytes are the target memory observed.               *)
(***************************************************************************)
FuseAddrs  == {FuseAddr(0), FuseAddr(0) + 5}
WideAddr   == FuseAddr(0) + 5 + 65536
FuseInputs == {<<0>>, <<\H1A5>>, <<\HC4, \H77>>}

FuseObserved == [g \in {0, 1} |-> FuseAddrs]

FuseCalls ==
    {O("write_fuse", a, d, 0, 0) : a \in FuseAddrs \cup {WideAddr}, d \in FuseInputs}

FuseInit == InitWith(FuseObserved) /\ gen = 0 /\ NoSession

FuseCall == (\E o \in FuseCalls : Call(o)) /\ Quiet

FuseNext ==
    \/ FuseCall
    \/ WaitFlashReady
    \/ Command
    \/ WriteByte
    \/ LinkFails
    \/ DeviceFinishes

FuseSpec == FuseInit /\ [][FuseNext]_vars

\* C12: generation-0 write_fuse(address, data) performs ready-wait, address
\* mod 256 to ADDRL, (address div 256) mod 256 to ADDRH, data[0] mod 256 to
\* DATAL, WRITE_FUSE, ready-wait, with nothing in between; it writes no
\* register after a failed first wait and returns only when the last wait
\* reported ready.
C12_WriteFuse0 ==
    (gen = 0 /\ op.name = "write_fuse")
        => Performs(<<WaitOk,
                      ByteEv("ADDRL", op.address % 256),
                      ByteEv("ADDRH", (op.address \div 256) % 256),
                      ByteEv("DATAL", op.data[1] % 256),
                      CmdEv(V0_WRITE_FUSE),
                      WaitOk>>)

\* C12 witness: write_fuse(0x1280, [0x00]) has returned, having written 0x80,
\* 0x12 and 0x00 to ADDRL, ADDRH and DATAL, and the fuse byte holds 0x00.
C12_Witness ==
    /\ gen = 0 /\ op = O("write_fuse", \H1280, <<0>>, 0, 0) /\ outcome = "returned"
    /\ regs = [ADDRL |-> \H80, ADDRH |-> \H12, DATAL |-> 0]
    /\ SubSeq(Log, 2, 4) = <<ByteEv("ADDRL", \H80), ByteEv("ADDRH", \H12),
                             ByteEv("DATAL", 0)>>
    /\ mem[\H1280] = 0

\* An address wider than 16 bits and a value wider than a byte are cut to
\* their low bytes.
C12_WideWitness ==
    /\ gen = 0 /\ op = O("write_fuse", WideAddr, <<\H1A5>>, 0, 0) /\ outcome = "returned"
    /\ regs = [ADDRL |-> \H85, ADDRH |-> \H12, DATAL |-> \HA5]

(***************************************************************************)
(* NvmSpec: write_nvm called directly, with every combination of access    *)
(* width, bulk mode and commit command, at the boundary addresses and at   *)
(* a page that is not a boundary.                                          *)
(***************************************************************************)
NvmAddrs(g) ==
    IF g = 0 THEN {\H8000, \H4000, \H8000 + blocksize}
    ELSE {\H800000, \H800000 + blocksize}

NvmCommands(g) == IF g = 0 THEN {V0_WRITE_PAGE, V0_ERASE_WRITE_PAGE} ELSE {""}

NvmCalls(g) ==
    {W(a, d, w, c, b) : a \in NvmAddrs(g), d \in FlashData, w \in BOOLEAN,
                        c \in NvmCommands(g), b \in BulkModes}

NvmInit == InitWith(FuseOnly) /\ NoSession

NvmCall == (\E o \in NvmCalls(gen) : Call(o)) /\ Quiet

NvmNext ==
    \/ NvmCall
    \/ WaitFlashReady
    \/ Command
    \/ WriteData
    \/ WriteWords
    \/ SleepDone
    \/ LinkFails
    \/ DeviceFinishes

NvmSpec == NvmInit /\ [][NvmNext]_vars

\* The load of the data of the running write_nvm, as the link logs it.
LoadEv == IF op.use_word_access THEN WordsEv(op.address, op.data)
          ELSE DataEv(op.address, op.data)

Setup0 == <<WaitOk, CmdEv(V0_PAGE_BUFFER_CLR), WaitOk>>

\* C13 as stated: generation-0 write_nvm skips its setup sequence exactly in
\* bulk-continue mode with word access at an address other than 0x8000 and
\* 0x4000; in every other case (bulk-final mode included) ready-wait,
\* PAGE_BUFFER_CLR, ready-wait precede the load.
C13_SetupSkip0 ==
    (gen = 0 /\ op.name = "write_nvm")
        => Begins((IF /\ op.bulkwrite = 1
                      /\ op.use_word_access
                      /\ op.address \notin {\H8000, \H4000}
                   THEN <<>> ELSE Setup0) \o <<LoadEv>>)

\* C13 amended: generation-0 write_nvm skips its setup sequence exactly in
\* bulk-continue or bulk-final mode with word access at an address other than
\* 0x8000 and 0x4000; in every other case ready-wait, PAGE_BUFFER_CLR,
\* ready-wait precede the load.
C13_SetupSkip0BulkFinalToo ==
    (gen = 0 /\ op.name = "write_nvm")
        => Begins((IF /\ op.bulkwrite \in {1, 2}
                      /\ op.use_word_access
                      /\ op.address \notin {\H8000, \H4000}
                   THEN <<>> ELSE Setup0) \o <<LoadEv>>)

\* C13 witness: a bulk-final word write at a non-boundary address has loaded
\* its data as its first access.
C13_Witness ==
    /\ gen = 0 /\ op.name = "write_nvm" /\ op.bulkwrite = 2 /\ op.use_word_access
    /\ op.address = \H8000 + blocksize
    /\ Log # <<>> /\ Log[1] = LoadEv

\* A bulk-continue byte-wide write runs the setup sequence before its load.
C13_ByteWitness ==
    /\ gen = 0 /\ op.name = "write_nvm" /\ op.bulkwrite = 1 /\ ~op.use_word_access
    /\ op.address = \H8000 + blocksize
    /\ Len(Log) >= 4 /\ SubSeq(Log, 1, 4) = Setup0 \o <<LoadEv>>

Setup1 == <<WaitOk, CmdEv(V1_FLASH_WRITE)>>

\* C14 as stated: generation-1 write_nvm skips its setup sequence exactly in
\* bulk-continue mode at an address other than 0x800000; in every other case
\* (bulk-final mode included) ready-wait, FLASH_WRITE precede the store.
C14_SetupSkip1 ==
    (gen = 1 /\ op.name = "write_nvm")
        => Begins((IF op.bulkwrite = 1 /\ op.address # \H800000
                   THEN <<>> ELSE Setup1) \o <<LoadEv>>)

\* C14 amended: generation-1 write_nvm skips its setup sequence exactly in
\* bulk-continue or bulk-final mode at an address other than 0x800000; in
\* every other case ready-wait, FLASH_WRITE precede the store.
C14_SetupSkip1BulkFinalToo ==
    (gen = 1 /\ op.name = "write_nvm")
        => Begins((IF op.bulkwrite \in {1, 2} /\ op.address # \H800000
                   THEN <<>> ELSE Setup1) \o <<LoadEv>>)

\* C14 witness: a bulk-final write at an address other than 0x800000 has
\* stored its data as its first access.
C14_Witness ==
    /\ gen = 1 /\ op.name = "write_nvm" /\ op.bulkwrite = 2
    /\ op.address = \H800000 + blocksize
    /\ Log # <<>> /\ Log[1] = LoadEv

\* A bulk-continue write at 0x800000 runs the setup sequence before its store.
C14_BoundaryWitness ==
    /\ gen = 1 /\ op.name = "write_nvm" /\ op.bulkwrite = 1 /\ op.address = \H800000
    /\ Len(Log) >= 3 /\ SubSeq(Log, 1, 3) = Setup1 \o <<LoadEv>>

\* The running operation is a write_flash at an address that is not a
\* boundary address of its generation.
FlashWriteOffBoundary ==
    /\ op.name = "write_flash"
    /\ IF gen = 0 THEN op.address \notin {\H8000, \H4000} ELSE op.address # \H800000

\* The link sequence of write_flash at a non-boundary address, by bulk mode:
\* setup in single mode only, the data written once (and committed once on
\* generation 0), teardown in single and bulk-final mode.
ByMode(g, o) ==
    (IF o.bulkwrite = 0 THEN (IF g = 0 THEN Setup0 ELSE Setup1) ELSE <<>>)
    \o <<WordsEv(o.address, o.data)>>
    \o (IF g = 0 THEN <<CmdEv(V0_WRITE_PAGE)>> ELSE <<>>)
    \o (IF o.bulkwrite \in {0, 2}
        THEN (IF g = 0 THEN <<WaitOk>> ELSE <<WaitOk, CmdEv(V1_NOCMD)>>)
        ELSE <<>>)

\* C15: a write_flash at a non-boundary address writes its data exactly once
\* in every bulk mode (and commits exactly once on generation 0); the final
\* ready-wait (with NOCMD after it on generation 1) runs in single and
\* bulk-final mode and not in bulk-continue mode, which on generation 0 reads
\* no status at all; bulk-final mode runs no setup.
C15_BulkModes ==
    FlashWriteOffBoundary =>
        /\ Performs(ByMode(gen, op))
        /\ (gen = 0 /\ op.bulkwrite = 1) =>
              \A i \in 1..Len(trace) :
                  trace[i].k # "wait" /\ ~(trace[i].k = "transport" /\ trace[i].c = "wait")

\* C15 witness: a generation-0 bulk-continue flash write has returned after
\* its load and its commit only.
C15_Witness ==
    /\ gen = 0 /\ FlashWriteOffBoundary /\ op.bulkwrite = 1 /\ outcome = "returned"
    /\ trace = <<WordsEv(op.address, op.data), CmdEv(V0_WRITE_PAGE)>>

\* A generation-1 bulk-final flash write has returned after store, ready-wait
\* and NOCMD.
C15_FinalWitness ==
    /\ gen = 1 /\ FlashWriteOffBoundary /\ op.bulkwrite = 2 /\ outcome = "returned"
    /\ Log = <<WordsEv(op.address, op.data), WaitOk, CmdEv(V1_NOCMD)>>

Dummy(a) == DataEv(a, <<255>>)

\* C16: erase_flash_page performs ready-wait, dummy write of 0xFF to address,
\* ERASE_PAGE, ready-wait on generation 0, and ready-wait, FLASH_PAGE_ERASE,
\* dummy write of 0xFF to address, ready-wait, NOCMD on generation 1; the
\* generation-1 erase_user_row(address, size) performs the sequence of
\* erase_flash_page(address) whatever size is.
C16_ErasePage ==
    /\ (gen = 0 /\ op.name = "erase_flash_page")
          => Performs(<<WaitOk, Dummy(op.address), CmdEv(V0_ERASE_PAGE), WaitOk>>)
    /\ (gen = 1 /\ op.name \in {"erase_flash_page", "erase_user_row"})
          => /\ Performs(<<WaitOk, CmdEv(V1_FLASH_PAGE_ERASE), Dummy(op.address),
                           WaitOk, CmdEv(V1_NOCMD)>>)
             /\ prog = Body(1, O("erase_flash_page", op.address, <<>>, 0, 0))

\* C16 witness: a generation-1 erase_user_row with a size other than 0 has
\* returned after the five accesses of erase_flash_page.
C16_Witness ==
    /\ gen = 1 /\ op.name = "erase_user_row" /\ op.size = MaxSize
    /\ outcome = "returned"
    /\ Log = <<WaitOk, CmdEv(V1_FLASH_PAGE_ERASE), Dummy(op.address),
               WaitOk, CmdEv(V1_NOCMD)>>

\* A generation-0 erase_flash_page has returned after its four accesses.
C16_Witness0 ==
    /\ gen = 0 /\ op.name = "erase_flash_page" /\ outcome = "returned"
    /\ Log = <<WaitOk, Dummy(op.address), CmdEv(V0_ERASE_PAGE), WaitOk>>

\* C17: generation-0 erase_user_row(address, size) performs ready-wait, one
\* dummy write of 0xFF to each of address, address+1, ..., address+size-1 in
\* this order, one ERASE_PAGE, ready-wait; with size 0 there is no dummy write
\* and ERASE_PAGE is still issued; nothing is written after a failed first
\* wait.
C17_EraseUserRow0 ==
    (gen = 0 /\ op.name = "erase_user_row")
        => Performs(<<WaitOk>>
                    \o [i \in 1..op.size |-> Dummy(op.address + (i - 1))]
                    \o <<CmdEv(V0_ERASE_PAGE), WaitOk>>)

\* C17 witness: erase_user_row with the largest size has returned after one
\* dummy write per location, the first at address and the last at
\* address+size-1.
C17_Witness ==
    /\ gen = 0 /\ op.name = "erase_user_row" /\ op.size = MaxSize
    /\ outcome = "returned"
    /\ Len(Log) = MaxSize + 3
    /\ Log[2] = Dummy(op.address) /\ Log[MaxSize + 1] = Dummy(op.address + MaxSize - 1)
    /\ Log[MaxSize + 2] = CmdEv(V0_ERASE_PAGE)

\* erase_user_row with size 0 has returned after ready-wait, ERASE_PAGE,
\* ready-wait.
C17_WitnessSize0 ==
    /\ gen = 0 /\ op.name = "erase_user_row" /\ op.size = 0 /\ outcome = "returned"
    /\ Log = <<WaitOk, CmdEv(V0_ERASE_PAGE), WaitOk>>

\* C18: generation-1 write_eeprom(address, data) performs ready-wait,
\* EEPROM_ERASE_WRITE, one byte-wise write of data at address, ready-wait,
\* NOCMD; write_fuse performs the sequence of write_eeprom with the same
\* arguments; and from the write of the data until NOCMD the command register
\* holds EEPROM_ERASE_WRITE, so the data is not written before the command is
\* latched.
C18_WriteEeprom1 ==
    (gen = 1 /\ op.name \in {"write_eeprom", "write_fuse"})
        => /\ Performs(<<WaitOk, CmdEv(V1_EEPROM_ERASE_WRITE),
                         DataEv(op.address, op.data), WaitOk, CmdEv(V1_NOCMD)>>)
           /\ prog = Body(1, O("write_eeprom", op.address, op.data, 0, 0))
           /\ \A i \in 1..Len(Log) :
                 (Log[i].k = "data" /\ Len(Log) < 5) => ctrla = V1_EEPROM_ERASE_WRITE

\* C18 witness: a generation-1 write_fuse has written its data with
\* EEPROM_ERASE_WRITE latched, and the controller is busy with it.
C18_Witness ==
    /\ gen = 1 /\ op.name = "write_fuse"
    /\ Log = <<WaitOk, CmdEv(V1_EEPROM_ERASE_WRITE), DataEv(op.address, op.data)>>
    /\ ctrla = V1_EEPROM_ERASE_WRITE
    /\ EEPROM_BUSY \in status
    /\ mem[op.address] = op.data[1]

\* A generation-1 write_eeprom has returned after its five accesses.
C18_ReturnWitness ==
    /\ gen = 1 /\ op.name = "write_eeprom" /\ outcome = "returned"
    /\ Log = <<WaitOk, CmdEv(V1_EEPROM_ERASE_WRITE), DataEv(op.address, op.data),
               WaitOk, CmdEv(V1_NOCMD)>>

\* C19: generation-0 write_eeprom(address, data) performs ready-wait,
\* PAGE_BUFFER_CLR, ready-wait, byte-wise load of data at address,
\* ERASE_WRITE_PAGE, ready-wait, whatever operations came before it;
\* write_user_row performs the sequence of write_eeprom with the same
\* arguments; write_flash loads word-wise only and commits with WRITE_PAGE.
C19_EepromNeverBulk ==
    /\ (gen = 0 /\ op.name \in {"write_eeprom", "write_user_row"})
          => /\ Performs(Setup0 \o <<DataEv(op.address, op.data),
                                     CmdEv(V0_ERASE_WRITE_PAGE), WaitOk>>)
             /\ prog = Body(0, O("write_eeprom", op.address, op.data, 0, 0))
    /\ (gen = 0 /\ op.name = "write_flash")
          => /\ \A i \in 1..Len(Log) :
                   /\ Log[i].k # "data"
                   /\ Log[i].k = "words" => Log[i] = WordsEv(op.address, op.data)
                   /\ Log[i].k = "cmd" => Log[i].c \in {V0_PAGE_BUFFER_CLR, V0_WRITE_PAGE}
             /\ outcome = "returned" =>
                   \E i \in 1..(Len(Log) - 1) :
                       /\ Log[i] = WordsEv(op.address, op.data)
                       /\ Log[i + 1] = CmdEv(V0_WRITE_PAGE)

\* C19 witness: a generation-0 write_user_row has returned after the full
\* sequence of write_eeprom.
C19_Witness ==
    /\ gen = 0 /\ op.name = "write_user_row" /\ outcome = "returned"
    /\ Log = Setup0 \o <<DataEv(op.address, op.data),
                         CmdEv(V0_ERASE_WRITE_PAGE), WaitOk>>

\* A generation-0 write_eeprom called while the controller is still busy with
\* the commit of a flash write opens with a ready-wait that polls.
C19_AfterFlashWitness ==
    /\ gen = 0 /\ op.name = "write_eeprom" /\ outcome = "running"
    /\ trace = <<T("wait", "polling", 0, <<>>)>>
    /\ ctrla = V0_WRITE_PAGE /\ FLASH_BUSY \in status

\* A store of the running generation-1 write_flash or write_user_row to target
\* memory.
Stores1 ==
    /\ gen = 1
    /\ op.name \in {"write_flash", "write_user_row"}
    /\ StepWriteWords \/ StepWriteData

\* C20 as stated: whenever a generation-1 write_flash or write_user_row stores
\* data to target memory, the command register holds FLASH_WRITE.
C20_StoreUnderFlashWrite ==
    [][Stores1 => ctrla = V1_FLASH_WRITE]_vars

\* C20, the stores that follow a setup: the statement holds of every store
\* made in single mode or at address 0x800000.
C20_StoreAfterSetup ==
    [][(Stores1 /\ (op.bulkwrite = 0 \/ op.address = \H800000))
          => ctrla = V1_FLASH_WRITE]_vars

====
